---- MODULE Spec2Model ----
(***************************************************************************)
(* Model of the restaurant finance bot: the aiogram handlers of main.py    *)
(* (the per-user FSM kept in MemoryStorage and the registration-order      *)
(* dispatch of messages) and the ledger of db/database.py (the users and   *)
(* transactions tables, add_transaction and the report queries).           *)
(*                                                                         *)
(* The model follows the SQLite branch of database.py (DATABASE_URL unset):*)
(* with DATABASE_URL set, init_db fails on "id SERIAL PRIMARY," and main() *)
(* never reaches start_polling.                                            *)
(*                                                                         *)
(* A message text is the sequence of its characters.  A run of characters  *)
(* that are neither digits, commas nor periods (letters, spaces, emoji) is *)
(* written as one element of the sequence; the Cyrillic literals of the    *)
(* source are transliterated, because module strings are ASCII.            *)
(***************************************************************************)
EXTENDS Integers, Sequences, FiniteSets, TLC

(***************************************************************************)
(* Bounds of the model.                                                    *)
(***************************************************************************)
\* longest amount text, in characters
MaxLen == 4
\* rows the transactions table may hold when the database functions are called
MaxTx == 2
\* rows the transactions table may hold when the handlers are run
MaxRecorded == 1
\* days the clock may advance after start-up
MaxElapsed == 15
\* days in a month of the model's calendar
DaysInMonth == 30
\* day of the calendar on which the process starts
StartDay == 26

\* timedelta(days=7) of get_weekly_summary
WeekDays == 7

\* from_user.id of the chat users
Users == {101, 102}

\* the processes that call add_transaction on the one database
Procs == {"p1", "p2"}

\* lengths of time between two database calls, in days
TickSteps == {WeekDays, WeekDays + 1}

(***************************************************************************)
(* main.py: constants                                                      *)
(***************************************************************************)
\* FinanceStates, and None for a user with no state set (Idle)
Idle == "None"
waiting_for_income_amount == "waiting_for_income_amount"
waiting_for_expense_amount == "waiting_for_expense_amount"
waiting_for_expense_category == "waiting_for_expense_category"
FinanceStates ==
    {waiting_for_income_amount, waiting_for_expense_amount, waiting_for_expense_category}

\* the six category labels, each a text of letters only
EXPENSE_CATEGORIES ==
    << <<"produkty">>, <<"personal">>, <<"arenda">>, <<"kommunalka">>, <<"reklama">>,
       <<"prochee">> >>

\* the category label add_income_amount passes ("dohod")
IncomeLabel == <<"dohod">>

\* the texts of the main_menu buttons and of the /start command
CmdStart == <<"/start">>
BtnAddIncome == <<"+ Dobavit dohod">>
BtnAddExpense == <<"- Dobavit rashod">>
BtnReports == <<"Otchety">>
BtnExport == <<"Vygruzit Excel">>

Range(s) == {s[i] : i \in DOMAIN s}

(***************************************************************************)
(* main.py: parse_amount                                                   *)
(***************************************************************************)
Digits == <<"0", "1", "2", "3", "4", "5", "6", "7", "8", "9">>
IsDigit(c) == c \in Range(Digits)
DigitVal(c) == (CHOOSE i \in DOMAIN Digits : Digits[i] = c) - 1

\* amounts are exact decimals, kept as integers in units of 10^-(MaxLen-1)
RECURSIVE Pow10(_)
Pow10(n) == IF n <= 0 THEN 1 ELSE 10 * Pow10(n - 1)
Scale == Pow10(MaxLen - 1)

\* re.sub(r'[^\d.,]', '', text)
Cleaned(text) == SelectSeq(text, LAMBDA c : IsDigit(c) \/ c = "," \/ c = ".")

\* faulty variant: the comma is left as it is
ReplaceFirstComma_none(s) == s

\* str.replace(',', '.', 1)
ReplaceFirstComma(s) ==
    IF \E i \in DOMAIN s : s[i] = ","
    THEN LET k == CHOOSE i \in DOMAIN s : s[i] = "," /\ \A j \in 1..(i - 1) : s[j] # ","
         IN  [i \in DOMAIN s |-> IF i = k THEN "." ELSE s[i]]
    ELSE s

\* str.split('.')
RECURSIVE Split(_)
Split(s) ==
    IF \E i \in DOMAIN s : s[i] = "."
    THEN LET k == CHOOSE i \in DOMAIN s : s[i] = "." /\ \A j \in 1..(i - 1) : s[j] # "."
         IN  <<SubSeq(s, 1, k - 1)>> \o Split(SubSeq(s, k + 1, Len(s)))
    ELSE <<s>>

\* ''.join(parts)
RECURSIVE Join(_)
Join(parts) == IF parts = <<>> THEN <<>> ELSE Head(parts) \o Join(Tail(parts))

\* the number a string of digits denotes
RECURSIVE DigitsVal(_)
DigitsVal(ds) ==
    IF ds = <<>> THEN 0 ELSE 10 * DigitsVal(SubSeq(ds, 1, Len(ds) - 1)) + DigitVal(ds[Len(ds)])

\* float(s) for s of digits, commas and periods: digits with at most one
\* period and at least one digit, else ValueError
Float(s) ==
    LET parts == Split(s)
        ok == /\ \A i \in DOMAIN s : s[i] # ","
              /\ Len(parts) <= 2
              /\ \E i \in DOMAIN s : IsDigit(s[i])
        whole == parts[1]
        frac == IF Len(parts) = 2 THEN parts[2] ELSE <<>>
    IN  IF ok
        THEN [ok |-> TRUE,
              value |-> DigitsVal(whole) * Scale
                        + DigitsVal(frac) * Pow10(MaxLen - 1 - Len(frac))]
        ELSE [ok |-> FALSE, value |-> 0]

ValueError == [ok |-> FALSE, value |-> 0]

parse_amount(text) ==
    IF text = <<>> THEN ValueError
    ELSE LET cleaned == Cleaned(text)
         IN  IF cleaned = <<>> THEN ValueError
             ELSE LET replaced == ReplaceFirstComma(cleaned)
                      parts == Split(replaced)
                      merged == IF Len(parts) > 2
                                THEN parts[1] \o <<".">> \o Join(Tail(parts))
                                ELSE replaced
                  IN  Float(merged)

(***************************************************************************)
(* State                                                                   *)
(***************************************************************************)
VARIABLES
    state,          \* MemoryStorage: the FSM state of each user
    data,           \* MemoryStorage: the FSM data of each user, a set of <<key, value>>
    users,          \* table users, in insertion order
    transactions,   \* table transactions, in insertion order
    now,            \* datetime.utcnow(), in days
    last,           \* the last message handled: its user and text, the handler that
                    \* took it, the reply sent and the error logged
    calls           \* the add_transaction calls in progress, one per process: the
                    \* line reached (pc), the arguments and the local user_id

vars == <<state, data, users, transactions, now, last, calls>>

(***************************************************************************)
(* db/database.py: users and transactions                                  *)
(***************************************************************************)
\* get_user_id returns None for an unknown tg_user_id; ids start at 1
None == 0

get_user_id(tbl, tg_user_id) ==
    IF \E i \in DOMAIN tbl : tbl[i].tg_user_id = tg_user_id
    THEN tbl[CHOOSE i \in DOMAIN tbl : tbl[i].tg_user_id = tg_user_id].id
    ELSE None

\* faulty variant: a plain INSERT into a table without the UNIQUE constraint
add_user_no_unique(tbl, tg_user_id, t) ==
    Append(tbl, [id |-> Len(tbl) + 1, tg_user_id |-> tg_user_id, created_at |-> t])

\* faulty variant: INSERT OR REPLACE, the row of a known tg_user_id is replaced
\* by a new one
add_user_or_replace(tbl, tg_user_id, t) ==
    LET kept == SelectSeq(tbl, LAMBDA r : r.tg_user_id # tg_user_id)
    IN  Append(kept, [id |-> Len(tbl) + 1, tg_user_id |-> tg_user_id, created_at |-> t])

\* INSERT OR IGNORE INTO users: tg_user_id is UNIQUE, id is AUTOINCREMENT
add_user(tbl, tg_user_id, t) ==
    IF \E i \in DOMAIN tbl : tbl[i].tg_user_id = tg_user_id
    THEN tbl
    ELSE Append(tbl, [id |-> Len(tbl) + 1, tg_user_id |-> tg_user_id, created_at |-> t])

\* INSERT INTO transactions
insert_transaction(tbl, user_id, trans_type, amount, category, t) ==
    Append(tbl, [id |-> Len(tbl) + 1, user_id |-> user_id, type |-> trans_type,
                 amount |-> amount, category |-> category, description |-> <<>>,
                 created_at |-> t])

\* the database call of add_transaction at which the store fails, if any
FailPoints == {"none", "get_user_id", "add_user", "get_user_id_2", "insert"}

\* no call of add_transaction in progress
NoCall ==
    [pc |-> "idle", tg_user_id |-> 0, trans_type |-> "", amount |-> 0,
     category |-> <<>>, user_id |-> None, ignored |-> FALSE]

\* time passes
Tick(d) ==
    /\ now + d <= StartDay + MaxElapsed
    /\ now' = now + d
    /\ UNCHANGED <<state, data, users, transactions, last, calls>>

\* faulty variant: the transaction is inserted under the id read before add_user
add_transaction_stale_id(tg_user_id, trans_type, amount, category, fail) ==
    LET uid1 == get_user_id(users, tg_user_id)
        users1 == IF uid1 = None THEN add_user(users, tg_user_id, now) ELSE users
        raise(tbl) == [raised |-> TRUE, users |-> tbl, transactions |-> transactions]
    IN  IF fail = "get_user_id" THEN raise(users)
        ELSE IF uid1 = None /\ fail = "add_user" THEN raise(users)
        ELSE IF uid1 = None /\ fail = "get_user_id_2" THEN raise(users1)
        ELSE IF fail = "insert" THEN raise(users1)
        ELSE [raised |-> FALSE, users |-> users1,
              transactions |->
                  insert_transaction(transactions, uid1, trans_type, amount, category, now)]

\* add_transaction: the tables after the call and whether it raised
add_transaction(tg_user_id, trans_type, amount, category, fail) ==
    LET uid1 == get_user_id(users, tg_user_id)
        users1 == IF uid1 = None THEN add_user(users, tg_user_id, now) ELSE users
        uid2 == get_user_id(users1, tg_user_id)
        raise(tbl) == [raised |-> TRUE, users |-> tbl, transactions |-> transactions]
    IN  IF fail = "get_user_id" THEN raise(users)
        ELSE IF uid1 = None /\ fail = "add_user" THEN raise(users)
        ELSE IF uid1 = None /\ fail = "get_user_id_2" THEN raise(users1)
        ELSE IF fail = "insert" THEN raise(users1)
        ELSE [raised |-> FALSE, users |-> users1,
              transactions |->
                  insert_transaction(transactions, uid2, trans_type, amount, category, now)]

(***************************************************************************)
(* db/database.py: report queries                                          *)
(***************************************************************************)
\* SUM(CASE WHEN type = trans_type THEN amount ELSE 0 END): NULL over no rows
RECURSIVE SumCaseRows(_, _)
SumCaseRows(rows, trans_type) ==
    IF rows = <<>> THEN 0
    ELSE (IF Head(rows).type = trans_type THEN Head(rows).amount ELSE 0)
         + SumCaseRows(Tail(rows), trans_type)

SumCase(rows, trans_type) ==
    IF rows = <<>> THEN [null |-> TRUE, value |-> 0]
    ELSE [null |-> FALSE, value |-> SumCaseRows(rows, trans_type)]

\* row[i] or 0
OrZero(v) == IF v.null \/ v.value = 0 THEN 0 ELSE v.value

\* the tail shared by the three summaries: income, expense, income - expense
Summary(rows) ==
    LET income == OrZero(SumCase(rows, "income"))
        expense == OrZero(SumCase(rows, "expense"))
    IN  <<income, expense, income - expense>>

\* DATE(created_at)
Date(t) == t

\* now.replace(day=1, hour=0, minute=0, second=0, microsecond=0)
MonthStart(t) == t - (t % DaysInMonth)

\* faulty variant: the query loses its user filter (WHERE DATE(created_at) = ?)
get_daily_summary_all_users(user_id) ==
    LET today == Date(now)
    IN  Summary(SelectSeq(transactions, LAMBDA r : Date(r.created_at) = today))

get_daily_summary(user_id) ==
    LET today == Date(now)
    IN  Summary(SelectSeq(transactions,
                          LAMBDA r : r.user_id = user_id /\ Date(r.created_at) = today))

\* faulty variant: the window starts after week_ago (DATE(created_at) > ?)
get_weekly_summary_strict(user_id) ==
    LET week_ago == Date(now) - WeekDays
    IN  Summary(SelectSeq(transactions,
                          LAMBDA r : r.user_id = user_id /\ Date(r.created_at) > week_ago))

get_weekly_summary(user_id) ==
    LET week_ago == Date(now) - WeekDays
    IN  Summary(SelectSeq(transactions,
                          LAMBDA r : r.user_id = user_id /\ Date(r.created_at) >= week_ago))

get_monthly_summary(user_id) ==
    LET month_start == MonthStart(now)
    IN  Summary(SelectSeq(transactions,
                          LAMBDA r : r.user_id = user_id /\ r.created_at >= month_start))

\* SUM(amount) of a group
RECURSIVE SumAmount(_)
SumAmount(rows) == IF rows = <<>> THEN 0 ELSE Head(rows).amount + SumAmount(Tail(rows))

\* ORDER BY total DESC over the groups; the order of equal totals is the engine's
RECURSIVE OrderByTotalDesc(_)
OrderByTotalDesc(groups) ==
    IF groups = {} THEN <<>>
    ELSE LET top == CHOOSE g \in groups : \A h \in groups : g[2] >= h[2]
         IN  <<top>> \o OrderByTotalDesc(groups \ {top})

\* faulty variant: the query loses its type filter (WHERE user_id = ?)
GroupByCategory_any_type(user_id) ==
    LET rows == SelectSeq(transactions, LAMBDA r : r.user_id = user_id)
    IN  {<<c, SumAmount(SelectSeq(rows, LAMBDA r : r.category = c))>> :
            c \in {rows[i].category : i \in DOMAIN rows}}

\* SELECT category, SUM(amount) ... WHERE user_id = ? AND type = 'expense' GROUP BY category
GroupByCategory(user_id) ==
    LET rows == SelectSeq(transactions,
                          LAMBDA r : r.user_id = user_id /\ r.type = "expense")
    IN  {<<c, SumAmount(SelectSeq(rows, LAMBDA r : r.category = c))>> :
            c \in {rows[i].category : i \in DOMAIN rows}}

get_expense_categories_summary(user_id) == OrderByTotalDesc(GroupByCategory(user_id))

\* faulty variant: the month totals are taken over all rows of the user
\* (WHERE user_id = ?)
generate_excel_report_all_time(user_id) ==
    LET operations == SelectSeq(transactions, LAMBDA r : r.user_id = user_id)
        expenses == SelectSeq(transactions,
                              LAMBDA r : r.user_id = user_id /\ r.type = "expense")
        category_summary ==
            OrderByTotalDesc({<<c, SumAmount(SelectSeq(expenses, LAMBDA r : r.category = c))>> :
                                 c \in {expenses[i].category : i \in DOMAIN expenses}})
        m_income == OrZero(SumCase(operations, "income"))
        m_expense == OrZero(SumCase(operations, "expense"))
    IN  [operations |-> operations, cat_list |-> category_summary,
         m_income |-> m_income, m_expense |-> m_expense,
         profit |-> m_income - m_expense]

\* generate_excel_report: what is written to the workbook, the sheet of the
\* operations (ORDER BY created_at, the order of insertion) and the summary
\* sheet with the category totals and the totals of the month
generate_excel_report(user_id) ==
    LET operations == SelectSeq(transactions, LAMBDA r : r.user_id = user_id)
        expenses == SelectSeq(transactions,
                              LAMBDA r : r.user_id = user_id /\ r.type = "expense")
        category_summary ==
            OrderByTotalDesc({<<c, SumAmount(SelectSeq(expenses, LAMBDA r : r.category = c))>> :
                                 c \in {expenses[i].category : i \in DOMAIN expenses}})
        month_start == MonthStart(now)
        monthly == SelectSeq(transactions,
                             LAMBDA r : r.user_id = user_id /\ r.created_at >= month_start)
        m_income == OrZero(SumCase(monthly, "income"))
        m_expense == OrZero(SumCase(monthly, "expense"))
    IN  [operations |-> operations, cat_list |-> category_summary,
         m_income |-> m_income, m_expense |-> m_expense,
         profit |-> m_income - m_expense]

(***************************************************************************)
(* main.py: dispatch.  Handlers are tried in registration order and the    *)
(* first whose filter passes takes the message.                            *)
(***************************************************************************)
\* faulty variant: add_expense_start is registered before add_income_amount
Handler_expense_start_first(u, text) ==
    IF text = CmdStart THEN "send_welcome"
    ELSE IF text = BtnAddIncome THEN "add_income_start"
    ELSE IF text = BtnAddExpense THEN "add_expense_start"
    ELSE IF state[u] = waiting_for_income_amount THEN "add_income_amount"
    ELSE IF state[u] = waiting_for_expense_category THEN "add_expense_category"
    ELSE IF state[u] = waiting_for_expense_amount THEN "add_expense_amount"
    ELSE IF text = BtnReports THEN "show_reports"
    ELSE IF text = BtnExport THEN "export_to_excel"
    ELSE "log_all_messages"

\* faulty variant: add_expense_category is registered without its state filter
\* and takes every category name
Handler_category_unfiltered(u, text) ==
    IF text = CmdStart THEN "send_welcome"
    ELSE IF text = BtnAddIncome THEN "add_income_start"
    ELSE IF state[u] = waiting_for_income_amount THEN "add_income_amount"
    ELSE IF text = BtnAddExpense THEN "add_expense_start"
    ELSE IF state[u] = waiting_for_expense_category
            \/ text \in Range(EXPENSE_CATEGORIES) THEN "add_expense_category"
    ELSE IF state[u] = waiting_for_expense_amount THEN "add_expense_amount"
    ELSE IF text = BtnReports THEN "show_reports"
    ELSE IF text = BtnExport THEN "export_to_excel"
    ELSE "log_all_messages"

Handler(u, text) ==
    IF text = CmdStart THEN "send_welcome"
    ELSE IF text = BtnAddIncome THEN "add_income_start"
    ELSE IF state[u] = waiting_for_income_amount THEN "add_income_amount"
    ELSE IF text = BtnAddExpense THEN "add_expense_start"
    ELSE IF state[u] = waiting_for_expense_category THEN "add_expense_category"
    ELSE IF state[u] = waiting_for_expense_amount THEN "add_expense_amount"
    ELSE IF text = BtnReports THEN "show_reports"
    ELSE IF text = BtnExport THEN "export_to_excel"
    ELSE "log_all_messages"

\* the texts every user sends: the command and the buttons, a word that is no
\* category, a message without text, and an amount of zero
CommonTexts ==
    {CmdStart, BtnAddIncome, BtnAddExpense, BtnReports, BtnExport,
     <<"Produkty">>, <<>>, <<"0">>}

\* the messages of the model: each user also sends one category and one amount
Inputs ==
    ({101} \X (CommonTexts \cup {<<"produkty">>, <<"1", ",", "5">>}))
    \cup ({102} \X (CommonTexts \cup {<<"arenda">>, <<"-", "5">>}))

\* what can go wrong while a handler runs: a database call of add_transaction
\* raises, or the Telegram API refuses the reply (message.answer raises)
Faults == FailPoints \cup {"answer"}
ReadFaults == {"none", "store", "answer"}
SendFaults == {"none", "answer"}

Last(u, text, handler, reply, log) ==
    [user |-> u, handler |-> handler, reply |-> reply, log |-> log, text |-> text]

\* message.answer(reply) outside a try block: a failed send ends the handler
Answer(u, text, handler, reply, fault) ==
    last' = Last(u, text, handler, IF fault = "answer" THEN "none" ELSE reply,
                 IF fault = "answer" THEN "TelegramError" ELSE "none")

\* faulty variant: the except branch also ends the dialogue (state.clear())
Except_clears_state(u, text, handler, log, reply) ==
    /\ last' = Last(u, text, handler, reply, log)
    /\ state' = [state EXCEPT ![u] = Idle]
    /\ data' = [data EXCEPT ![u] = {}]

\* an except branch: logging.error(e), then message.answer(reply); the FSM
\* state and data are as the handler found them
Except(u, text, handler, log, reply) ==
    /\ last' = Last(u, text, handler, reply, log)
    /\ UNCHANGED <<state, data>>

\* faulty variant: only negative amounts are refused (amount < 0)
Rejected_negative_only(amount) == ~amount.ok \/ amount.value < 0

\* amount = parse_amount(message.text) raised, or amount <= 0 raises
Rejected(amount) == ~amount.ok \/ amount.value <= 0

\* state.update_data(category=text) and data["category"]
update_data(d, key, value) == {p \in d : p[1] # key} \cup {<<key, value>>}
HasKey(d, key) == \E p \in d : p[1] = key
Lookup(d, key) == (CHOOSE p \in d : p[1] = key)[2]

(***************************************************************************)
(* main.py: handlers                                                       *)
(***************************************************************************)
send_welcome(u, text, fault) ==
    /\ Handler(u, text) = "send_welcome"
    /\ Answer(u, text, "send_welcome", "welcome", fault)
    /\ UNCHANGED <<state, data, users, transactions, now, calls>>

add_income_start(u, text, fault) ==
    /\ Handler(u, text) = "add_income_start"
    /\ Answer(u, text, "add_income_start", "ask_income_amount", fault)
    /\ state' = IF fault = "answer" THEN state
                ELSE [state EXCEPT ![u] = waiting_for_income_amount]
    /\ UNCHANGED <<data, users, transactions, now, calls>>

add_income_amount(u, text, fault) ==
    /\ Handler(u, text) = "add_income_amount"
    /\ LET amount == parse_amount(text)
       IN  IF Rejected(amount)
           THEN /\ Except(u, text, "add_income_amount", "ValueError", "bad_income_format")
                /\ UNCHANGED <<users, transactions, now, calls>>
           ELSE LET res == add_transaction(u, "income", amount.value, IncomeLabel, fault)
                IN  /\ Len(res.transactions) <= MaxRecorded
                    /\ users' = res.users
                    /\ transactions' = res.transactions
                    /\ IF res.raised
                       THEN /\ Except(u, text, "add_income_amount", "StoreUnavailable",
                                      "bad_income_format")
                       ELSE IF fault = "answer"
                       THEN /\ Except(u, text, "add_income_amount", "TelegramError",
                                      "bad_income_format")
                       ELSE /\ Answer(u, text, "add_income_amount", "income_added", fault)
                            /\ state' = [state EXCEPT ![u] = Idle]
                            /\ data' = [data EXCEPT ![u] = {}]
                    /\ UNCHANGED <<now, calls>>

add_expense_start(u, text, fault) ==
    /\ Handler(u, text) = "add_expense_start"
    /\ Answer(u, text, "add_expense_start", "ask_category", fault)
    /\ state' = IF fault = "answer" THEN state
                ELSE [state EXCEPT ![u] = waiting_for_expense_category]
    /\ UNCHANGED <<data, users, transactions, now, calls>>

\* faulty variant: the membership test is dropped and any text is taken as the category
add_expense_category_any_text(u, text, fault) ==
    /\ Handler(u, text) = "add_expense_category"
    /\ data' = [data EXCEPT ![u] = update_data(@, "category", text)]
    /\ Answer(u, text, "add_expense_category", "ask_expense_amount", fault)
    /\ state' = IF fault = "answer" THEN state
                ELSE [state EXCEPT ![u] = waiting_for_expense_amount]
    /\ UNCHANGED <<users, transactions, now, calls>>

add_expense_category(u, text, fault) ==
    /\ Handler(u, text) = "add_expense_category"
    /\ IF text \notin Range(EXPENSE_CATEGORIES)
       THEN /\ Answer(u, text, "add_expense_category", "choose_from_list", fault)
            /\ UNCHANGED <<state, data>>
       ELSE /\ data' = [data EXCEPT ![u] = update_data(@, "category", text)]
            /\ Answer(u, text, "add_expense_category", "ask_expense_amount", fault)
            /\ state' = IF fault = "answer" THEN state
                        ELSE [state EXCEPT ![u] = waiting_for_expense_amount]
    /\ UNCHANGED <<users, transactions, now, calls>>

add_expense_amount(u, text, fault) ==
    /\ Handler(u, text) = "add_expense_amount"
    /\ LET amount == parse_amount(text)
       IN  IF Rejected(amount)
           THEN /\ Except(u, text, "add_expense_amount", "ValueError", "bad_expense_format")
                /\ UNCHANGED <<users, transactions, now, calls>>
           ELSE IF ~HasKey(data[u], "category")
           THEN /\ Except(u, text, "add_expense_amount", "KeyError", "bad_expense_format")
                /\ UNCHANGED <<users, transactions, now, calls>>
           ELSE LET category == Lookup(data[u], "category")
                    res == add_transaction(u, "expense", amount.value, category, fault)
                IN  /\ Len(res.transactions) <= MaxRecorded
                    /\ users' = res.users
                    /\ transactions' = res.transactions
                    /\ IF res.raised
                       THEN /\ Except(u, text, "add_expense_amount", "StoreUnavailable",
                                      "bad_expense_format")
                       ELSE IF fault = "answer"
                       THEN /\ Except(u, text, "add_expense_amount", "TelegramError",
                                      "bad_expense_format")
                       ELSE /\ Answer(u, text, "add_expense_amount", "expense_added", fault)
                            /\ state' = [state EXCEPT ![u] = Idle]
                            /\ data' = [data EXCEPT ![u] = {}]
                    /\ UNCHANGED <<now, calls>>

\* the empty-state replies of show_reports and export_to_excel
NoDataReplies == {"no_data", "no_data_for_report", "no_data_for_export"}

\* what show_reports answers when its queries and its reply succeed
ReportReply(u) ==
    LET user_id == get_user_id(users, u)
        d == get_daily_summary(user_id)
        w == get_weekly_summary(user_id)
    IN  IF user_id = None THEN "no_data"
        ELSE IF d[1] = 0 /\ d[2] = 0 /\ w[1] = 0 /\ w[2] = 0 THEN "no_data_for_report"
        ELSE "report"

show_reports(u, text, fault) ==
    /\ Handler(u, text) = "show_reports"
    /\ IF fault = "store"
       THEN Except(u, text, "show_reports", "StoreUnavailable", "report_failed")
       ELSE IF fault = "answer"
       THEN Except(u, text, "show_reports", "TelegramError", "report_failed")
       ELSE /\ Answer(u, text, "show_reports", ReportReply(u), fault)
            /\ UNCHANGED <<state, data>>
    /\ UNCHANGED <<users, transactions, now, calls>>

\* what export_to_excel answers when its queries and its reply succeed
ExportReply(u) ==
    IF get_user_id(users, u) = None THEN "no_data_for_export" ELSE "document"

export_to_excel(u, text, fault) ==
    /\ Handler(u, text) = "export_to_excel"
    /\ IF fault = "store"
       THEN Except(u, text, "export_to_excel", "StoreUnavailable", "export_failed")
       ELSE IF fault = "answer"
       THEN Except(u, text, "export_to_excel", "TelegramError", "export_failed")
       ELSE /\ Answer(u, text, "export_to_excel", ExportReply(u), fault)
            /\ UNCHANGED <<state, data>>
    /\ UNCHANGED <<users, transactions, now, calls>>

log_all_messages(u, text) ==
    /\ Handler(u, text) = "log_all_messages"
    /\ last' = Last(u, text, "log_all_messages", "none", "none")
    /\ UNCHANGED <<state, data, users, transactions, now, calls>>

(***************************************************************************)
(* Specification: main() after init_db, one message handled at a time      *)
(***************************************************************************)
Init ==
    /\ state = [u \in Users |-> Idle]
    /\ data = [u \in Users |-> {}]
    /\ users = <<>>
    /\ transactions = <<>>
    /\ now = StartDay
    /\ last = Last(0, <<>>, "none", "none", "none")
    /\ calls = [p \in Procs |-> NoCall]

\* the process is started again: main() builds a new MemoryStorage, and init_db
\* (CREATE TABLE IF NOT EXISTS) keeps the tables of finance.db
Restart ==
    /\ state' = [u \in Users |-> Idle]
    /\ data' = [u \in Users |-> {}]
    /\ last' = Last(0, <<>>, "none", "none", "none")
    /\ UNCHANGED <<users, transactions, now, calls>>

Next ==
    \/ \E m \in Inputs, fault \in SendFaults : send_welcome(m[1], m[2], fault)
    \/ \E m \in Inputs, fault \in SendFaults : add_income_start(m[1], m[2], fault)
    \/ \E m \in Inputs, fault \in Faults : add_income_amount(m[1], m[2], fault)
    \/ \E m \in Inputs, fault \in SendFaults : add_expense_start(m[1], m[2], fault)
    \/ \E m \in Inputs, fault \in SendFaults : add_expense_category(m[1], m[2], fault)
    \/ \E m \in Inputs, fault \in Faults : add_expense_amount(m[1], m[2], fault)
    \/ \E m \in Inputs, fault \in ReadFaults : show_reports(m[1], m[2], fault)
    \/ \E m \in Inputs, fault \in ReadFaults : export_to_excel(m[1], m[2], fault)
    \/ \E m \in Inputs : log_all_messages(m[1], m[2])
    \/ Restart

Spec == Init /\ [][Next]_vars

(***************************************************************************)
(* db/database.py: add_transaction, one database call at a time.  Each     *)
(* call of get_user_id and add_user and the INSERT with its commit is one  *)
(* statement on a connection of its own, atomic in the database.           *)
(***************************************************************************)
\* add_transaction(tg_user_id, trans_type, amount, category) is called
Call(p, tg_user_id, trans_type, amount, category) ==
    /\ calls[p].pc \in {"idle", "done"}
    /\ Len(transactions)
       + Cardinality({q \in Procs : calls[q].pc \notin {"idle", "done"}}) < MaxTx
    /\ calls' = [calls EXCEPT ![p] =
                    [pc |-> "get_user_id", tg_user_id |-> tg_user_id,
                     trans_type |-> trans_type, amount |-> amount,
                     category |-> category, user_id |-> None, ignored |-> FALSE]]
    /\ UNCHANGED <<state, data, users, transactions, now, last>>

\* line 100: user_id = get_user_id(tg_user_id); line 101: if user_id is None
GetUserId(p) ==
    /\ calls[p].pc = "get_user_id"
    /\ LET user_id == get_user_id(users, calls[p].tg_user_id)
       IN  calls' = [calls EXCEPT ![p].user_id = user_id,
                                  ![p].pc = IF user_id = None THEN "add_user"
                                            ELSE "insert"]
    /\ UNCHANGED <<state, data, users, transactions, now, last>>

\* line 102: add_user(tg_user_id)
AddUser(p) ==
    /\ calls[p].pc = "add_user"
    /\ users' = add_user(users, calls[p].tg_user_id, now)
    /\ calls' = [calls EXCEPT ![p].pc = "get_user_id_2",
                              ![p].ignored = (users' = users)]
    /\ UNCHANGED <<state, data, transactions, now, last>>

\* line 103: user_id = get_user_id(tg_user_id)
GetUserIdAgain(p) ==
    /\ calls[p].pc = "get_user_id_2"
    /\ calls' = [calls EXCEPT ![p].user_id = get_user_id(users, calls[p].tg_user_id),
                              ![p].pc = "insert"]
    /\ UNCHANGED <<state, data, users, transactions, now, last>>

\* lines 105-118: INSERT INTO transactions, commit
InsertTransaction(p) ==
    /\ calls[p].pc = "insert"
    /\ transactions' = insert_transaction(transactions, calls[p].user_id,
                                          calls[p].trans_type, calls[p].amount,
                                          calls[p].category, now)
    /\ calls' = [calls EXCEPT ![p].pc = "done"]
    /\ UNCHANGED <<state, data, users, now, last>>

\* the database call the process is about to make raises
Raise(p) ==
    /\ calls[p].pc \in {"get_user_id", "add_user", "get_user_id_2", "insert"}
    /\ calls' = [calls EXCEPT ![p] = NoCall]
    /\ UNCHANGED <<state, data, users, transactions, now, last>>

\* the arguments the handlers pass to add_transaction
CallArgs ==
    {<<"income", IncomeLabel>>}
    \cup {<<"expense", c>> : c \in {<<"produkty">>, <<"arenda">>}}
\* the callers and the amount each records: the amounts of the texts of Inputs
Callers ==
    {<<101, parse_amount(<<"1", ",", "5">>).value>>,
     <<102, parse_amount(<<"-", "5">>).value>>}

NextConc ==
    \/ \E p \in Procs, c \in Callers, a \in CallArgs : Call(p, c[1], a[1], c[2], a[2])
    \/ \E p \in Procs : GetUserId(p)
    \/ \E p \in Procs : AddUser(p)
    \/ \E p \in Procs : GetUserIdAgain(p)
    \/ \E p \in Procs : InsertTransaction(p)
    \/ \E p \in Procs : Raise(p)

SpecConc == Init /\ [][NextConc]_vars

(***************************************************************************)
(* db/database.py called as a library: add_transaction runs to its end,    *)
(* and time passes between the calls.                                      *)
(***************************************************************************)
AddTransaction(tg_user_id, trans_type, amount, category, fail) ==
    LET res == add_transaction(tg_user_id, trans_type, amount, category, fail)
    IN  /\ Len(res.transactions) <= MaxTx
        /\ users' = res.users
        /\ transactions' = res.transactions
        /\ UNCHANGED <<state, data, now, last, calls>>

NextDb ==
    \/ \E c \in Callers, a \in CallArgs, fail \in FailPoints :
           AddTransaction(c[1], a[1], c[2], a[2], fail)
    \/ \E d \in TickSteps : Tick(d)

SpecDb == Init /\ [][NextDb]_vars

(***************************************************************************)
(* show_reports over a ledger of any age: transactions are recorded, time  *)
(* passes, and a user asks for the reports.  last holds a request only in  *)
(* the state its handler leaves.                                           *)
(***************************************************************************)
NoMessage == Last(0, <<>>, "none", "none", "none")

\* a transaction is recorded (or the call fails), as in AddTransaction
Record(tg_user_id, trans_type, amount, category, fail) ==
    LET res == add_transaction(tg_user_id, trans_type, amount, category, fail)
    IN  /\ Len(res.transactions) <= MaxTx
        /\ users' = res.users
        /\ transactions' = res.transactions
        /\ last' = NoMessage
        /\ UNCHANGED <<state, data, now, calls>>

\* time passes, as in Tick
Elapse(d) ==
    /\ now + d <= StartDay + MaxElapsed
    /\ now' = now + d
    /\ last' = NoMessage
    /\ UNCHANGED <<state, data, users, transactions, calls>>

NextReports ==
    \/ \E c \in Callers, a \in CallArgs, fail \in FailPoints :
           Record(c[1], a[1], c[2], a[2], fail)
    \/ \E d \in TickSteps : Elapse(d)
    \/ \E u \in Users, fault \in ReadFaults : show_reports(u, BtnReports, fault)

SpecReports == Init /\ [][NextReports]_vars

(***************************************************************************)
(* main.py: parse_amount called on its own.  last holds the text of the    *)
(* call and, once the call has returned, as reply what it gave.            *)
(***************************************************************************)
\* the characters of the texts: digits, both separators and a sign
Chars == {"0", "1", "5", ",", ".", "-"}

\* every text of at most MaxLen characters
Texts == UNION {[1..n -> Chars] : n \in 0..MaxLen}

InitParse ==
    /\ state = [u \in Users |-> Idle]
    /\ data = [u \in Users |-> {}]
    /\ users = <<>>
    /\ transactions = <<>>
    /\ now = StartDay
    /\ last \in {Last(0, text, "none", "none", "none") : text \in Texts}
    /\ calls = [p \in Procs |-> NoCall]

ParseAmount ==
    /\ last.handler = "none"
    /\ last' = Last(0, last.text, "parse_amount", parse_amount(last.text), "none")
    /\ UNCHANGED <<state, data, users, transactions, now, calls>>

NextParse == ParseAmount

SpecParse == InitParse /\ [][NextParse]_vars

(***************************************************************************)
(* Properties.  A step of Spec with last'.user in Users is the dispatch of  *)
(* the message <<last'.user, last'.text>>, taken by last'.handler; the     *)
(* other steps are restarts.                                               *)
(***************************************************************************)
\* C1 as stated: in waiting_for_expense_category every text that is not in
\* EXPENSE_CATEGORIES leaves the session in waiting_for_expense_category, and
\* the session reaches waiting_for_expense_amount only on a text that is in
\* EXPENSE_CATEGORIES.
C1_AnyOtherTextStays ==
    [][LET u == last'.user
           text == last'.text
       IN  (u \in Users /\ state[u] = waiting_for_expense_category)
           => /\ text \notin Range(EXPENSE_CATEGORIES)
                 => state'[u] = waiting_for_expense_category
              /\ state'[u] = waiting_for_expense_amount
                 => text \in Range(EXPENSE_CATEGORIES)]_vars

\* C1 as amended: the same for every text that is neither in EXPENSE_CATEGORIES
\* nor the text of the "add income" button; that button, whose handler is
\* registered first and has no state filter, takes the session to
\* waiting_for_income_amount (or leaves it as it is when the reply cannot be
\* sent).
C1_OtherTextStays ==
    [][LET u == last'.user
           text == last'.text
       IN  (u \in Users /\ state[u] = waiting_for_expense_category)
           => /\ (text \notin Range(EXPENSE_CATEGORIES) /\ text # BtnAddIncome)
                 => state'[u] = waiting_for_expense_category
              /\ state'[u] = waiting_for_expense_amount
                 => text \in Range(EXPENSE_CATEGORIES)
              /\ text = BtnAddIncome
                 => state'[u] \in {waiting_for_income_amount,
                                   waiting_for_expense_category}]_vars

\* C1 witness: add_expense_category has re-prompted and the session still waits
\* for a category
C1_Witness ==
    /\ last.handler = "add_expense_category"
    /\ last.reply = "choose_from_list"
    /\ state[last.user] = waiting_for_expense_category

\* C2: add_transaction is atomic for readers: in every reachable state, also
\* after the insert of the transaction failed once add_user had committed,
\* every user row has a transaction row and every transaction row has its user
\* row.
C2_NoPartialAppend ==
    /\ \A i \in DOMAIN users :
          \E j \in DOMAIN transactions : transactions[j].user_id = users[i].id
    /\ \A j \in DOMAIN transactions :
          \E i \in DOMAIN users : users[i].id = transactions[j].user_id

\* C3: under any interleaving of the database calls of concurrent
\* add_transaction calls, the users table holds at most one row per tg_user_id,
\* a call that has looked its user up holds the one internal id of its
\* tg_user_id, which every later get_user_id returns too, and the call inserts
\* its transaction under that id.
C3_OneInternalUser ==
    /\ \A tg \in Users :
          Cardinality({i \in DOMAIN users : users[i].tg_user_id = tg}) <= 1
    /\ \A p \in Procs :
          calls[p].pc \in {"insert", "done"}
          => /\ calls[p].user_id # None
             /\ calls[p].user_id = get_user_id(users, calls[p].tg_user_id)
    /\ \A p \in Procs :
          calls[p].pc = "done"
          => \E j \in DOMAIN transactions :
                /\ transactions[j].user_id = get_user_id(users, calls[p].tg_user_id)
                /\ transactions[j].type = calls[p].trans_type
                /\ transactions[j].category = calls[p].category

\* C3 witness: two calls for the same tg_user_id have both found no user, both
\* run add_user (the second INSERT was ignored) and both inserted
C3_Witness ==
    \E p, q \in Procs :
        /\ p # q
        /\ calls[p].tg_user_id = calls[q].tg_user_id
        /\ calls[p].pc = "done" /\ calls[q].pc = "done"
        /\ calls[q].ignored
        /\ Len(users) = 1 /\ Len(transactions) = 2

AmountStates == {waiting_for_income_amount, waiting_for_expense_amount}
AmountHandlers == {"add_income_amount", "add_expense_amount"}

\* C4 as stated: in waiting_for_income_amount and in waiting_for_expense_amount
\* every input for which parse_amount fails or yields a value <= 0 leaves the
\* session in the same state with the same stored category and appends
\* nothing, after any number of earlier failures.
C4_InvalidAmountStays ==
    [][LET u == last'.user
           amount == parse_amount(last'.text)
       IN  (/\ u \in Users
            /\ state[u] \in AmountStates
            /\ ~amount.ok \/ amount.value <= 0)
           => /\ state'[u] = state[u]
              /\ data'[u] = data[u]
              /\ transactions' = transactions /\ users' = users]_vars

\* C4 as amended: the same for the inputs the amount handlers take, which are
\* all inputs but the texts of the two "add" buttons in
\* waiting_for_expense_amount; there the "add income" text starts the income
\* dialogue and the "add expense" text restarts the category dialogue, both
\* keeping the stored category and appending nothing.
C4_InvalidAmountStaysUnlessCommand ==
    [][LET u == last'.user
           text == last'.text
           amount == parse_amount(text)
           restarts == state[u] = waiting_for_expense_amount
                       /\ text \in {BtnAddIncome, BtnAddExpense}
       IN  (/\ u \in Users
            /\ state[u] \in AmountStates
            /\ ~amount.ok \/ amount.value <= 0)
           => /\ ~restarts => state'[u] = state[u]
              /\ (restarts /\ text = BtnAddIncome)
                 => state'[u] \in {waiting_for_income_amount, state[u]}
              /\ (restarts /\ text = BtnAddExpense)
                 => state'[u] \in {waiting_for_expense_category, state[u]}
              /\ data'[u] = data[u]
              /\ transactions' = transactions /\ users' = users]_vars

\* C4 witness: an amount handler has refused an amount and the session still
\* waits for the amount, with its category
C4_Witness ==
    /\ last.handler = "add_expense_amount"
    /\ last.log = "ValueError"
    /\ state[last.user] = waiting_for_expense_amount
    /\ HasKey(data[last.user], "category")

\* C5: when add_transaction raises in add_income_amount or add_expense_amount
\* the FSM state and data are after the handler what they were before it, and
\* the same input sent again is taken by the same handler, is not refused as
\* an amount, and with the store and the reply working records one
\* transaction and returns the session to Idle.
C5_StoreFailureKeepsSession ==
    [][/\ (last'.handler \in AmountHandlers /\ last'.log = "StoreUnavailable")
          => (state' = state /\ data' = data /\ transactions' = transactions)
       /\ (/\ last.handler \in AmountHandlers /\ last.log = "StoreUnavailable"
           /\ last'.user = last.user /\ last'.text = last.text)
          => /\ last'.handler = last.handler
             /\ last'.log \in {"none", "StoreUnavailable", "TelegramError"}
             /\ last'.log = "none"
                => /\ Len(transactions') = Len(transactions) + 1
                   /\ state'[last.user] = Idle
                   /\ data'[last.user] = {}]_vars

\* C5 witness: add_transaction has raised in an amount handler and the session
\* still waits for the amount
C5_Witness ==
    /\ last.handler \in AmountHandlers
    /\ last.log = "StoreUnavailable"
    /\ state[last.user] \in AmountStates

\* a text that reads as a number: digits with at most one comma or period
IsNumber(s) ==
    /\ \E i \in DOMAIN s : IsDigit(s[i])
    /\ \A i \in DOMAIN s : IsDigit(s[i]) \/ s[i] \in {",", "."}
    /\ Cardinality({i \in DOMAIN s : s[i] \in {",", "."}}) <= 1

\* a text that denotes zero or a negative number
DenotesNonPositive(text) ==
    \/ IsNumber(text) /\ \A i \in DOMAIN text : IsDigit(text[i]) => text[i] = "0"
    \/ Len(text) >= 2 /\ text[1] = "-" /\ IsNumber(Tail(text))

\* C6: an amount text that denotes zero or a negative number is refused by
\* add_income_amount and add_expense_amount: nothing is appended and the
\* session stays in its state.
C6_NonPositiveRejected ==
    [][LET u == last'.user
       IN  (last'.handler \in AmountHandlers /\ DenotesNonPositive(last'.text))
           => /\ transactions' = transactions
              /\ state'[u] = state[u]]_vars

\* C7: every transaction row has amount > 0, type income or expense, the id of
\* a users row, and the category "dohod" when income and a member of
\* EXPENSE_CATEGORIES when expense.
C7_LedgerWellFormed ==
    \A j \in DOMAIN transactions :
        LET row == transactions[j]
        IN  /\ row.amount > 0
            /\ row.type \in {"income", "expense"}
            /\ \E i \in DOMAIN users : users[i].id = row.user_id
            /\ row.type = "income" => row.category = IncomeLabel
            /\ row.type = "expense" => row.category \in Range(EXPENSE_CATEGORIES)

\* C7 witness: add_expense_amount has recorded an expense
C7_Witness ==
    /\ last.reply = "expense_added"
    /\ \E j \in DOMAIN transactions : transactions[j].type = "expense"

\* the transactions of the user with this tg_user_id
RowsOf(tg_user_id) ==
    {j \in DOMAIN transactions :
        \E i \in DOMAIN users : /\ users[i].tg_user_id = tg_user_id
                                /\ users[i].id = transactions[j].user_id}

\* the sum of the amounts of a set of transaction rows
RECURSIVE SumOf(_)
SumOf(S) ==
    IF S = {} THEN 0
    ELSE LET j == CHOOSE k \in S : TRUE
         IN  transactions[j].amount + SumOf(S \ {j})

\* the rows of a user, of one type, created inside a window
RowsIn(user_id, trans_type, InWindow(_)) ==
    {j \in DOMAIN transactions :
        /\ transactions[j].user_id = user_id
        /\ transactions[j].type = trans_type
        /\ InWindow(transactions[j].created_at)}

\* income, expense and profit of a user over a window
Totals(user_id, InWindow(_)) ==
    LET income == SumOf(RowsIn(user_id, "income", InWindow))
        expense == SumOf(RowsIn(user_id, "expense", InWindow))
    IN  <<income, expense, income - expense>>

\* the windows: today, today - 7 days and later, the current month
Today(t) == t = now
LastSevenDays(t) == t >= now - 7
ThisMonth(t) == t >= (now \div DaysInMonth) * DaysInMonth

\* the internal ids in use, and one that is not
UserIds == 1..(Len(users) + 1)

\* C8: the daily, weekly and monthly summaries of every user are the sums of
\* the user's income and expense amounts created today, on or after today - 7
\* days, and in the current month, 0 for a side with no such row, with profit
\* income - expense.
C8_SummariesAreWindowSums ==
    \A user_id \in UserIds :
        /\ get_daily_summary(user_id) = Totals(user_id, Today)
        /\ get_weekly_summary(user_id) = Totals(user_id, LastSevenDays)
        /\ get_monthly_summary(user_id) = Totals(user_id, ThisMonth)

\* C8 witness: a user whose weekly summary differs from the daily and the
\* monthly one, with an income and an expense in the week
C8_Witness ==
    \E user_id \in UserIds :
        LET d == get_daily_summary(user_id)
            w == get_weekly_summary(user_id)
            m == get_monthly_summary(user_id)
        IN  d # w /\ w # m /\ w[1] > 0 /\ w[2] > 0

\* C9: the category totals of every user add up to the sum of the user's
\* expense amounts: one entry per category that has an expense, each the sum
\* of the user's expenses of that category, with no income and no other
\* user's row in it.
C9_BreakdownPartitionsExpenses ==
    \A user_id \in UserIds :
        LET summary == get_expense_categories_summary(user_id)
            expenses == RowsIn(user_id, "expense", LAMBDA t : TRUE)
            total[k \in 0..Len(summary)] ==
                IF k = 0 THEN 0 ELSE total[k - 1] + summary[k][2]
        IN  /\ total[Len(summary)] = SumOf(expenses)
            /\ \A a, b \in DOMAIN summary : a # b => summary[a][1] # summary[b][1]
            /\ \A j \in expenses :
                  \E a \in DOMAIN summary : summary[a][1] = transactions[j].category
            /\ \A a \in DOMAIN summary :
                  /\ summary[a][2] > 0
                  /\ summary[a][2]
                     = SumOf({j \in expenses : transactions[j].category = summary[a][1]})

\* C9 witness: a user with an expense category while the table also holds
\* a row that is not an expense of that user
C9_Witness ==
    \E user_id \in UserIds :
        /\ Len(get_expense_categories_summary(user_id)) >= 1
        /\ \E j \in DOMAIN transactions :
              transactions[j].user_id # user_id \/ transactions[j].type = "income"

\* C10: a user with no transaction who asks for the reports or the export gets
\* an empty-state reply, never a report or a spreadsheet, also after a failed
\* append (a request that ends in an exception gets the failure reply).
C10_NoDataForEmptyLedger ==
    (/\ last.handler \in {"show_reports", "export_to_excel"}
     /\ last.log = "none"
     /\ RowsOf(last.user) = {})
    => last.reply \in NoDataReplies

\* C11: a valid positive amount sent in waiting_for_income_amount or in
\* waiting_for_expense_amount appends exactly one transaction of the sending
\* user, of type income with the category "dohod" or of type expense with the
\* category stored in the session, and the session ends in Idle with its
\* data cleared; when the append itself fails nothing is recorded and the
\* session is as it was.
C11_ValidAmountRecordsOnce ==
    [][LET u == last'.user
           amount == parse_amount(last'.text)
           income == state[u] = waiting_for_income_amount
           row == transactions'[Len(transactions')]
       IN  (/\ u \in Users
            /\ state[u] \in AmountStates
            /\ amount.ok /\ amount.value > 0)
           => \/ /\ transactions' = transactions
                 /\ state'[u] = state[u]
                 /\ data'[u] = data[u]
              \/ /\ Len(transactions') = Len(transactions) + 1
                 /\ SubSeq(transactions', 1, Len(transactions)) = transactions
                 /\ row.amount = amount.value
                 /\ row.type = IF income THEN "income" ELSE "expense"
                 /\ row.category = IF income THEN IncomeLabel
                                   ELSE Lookup(data[u], "category")
                 /\ row.user_id = get_user_id(users', u)
                 /\ row.user_id # None
                 /\ state'[u] = Idle
                 /\ data'[u] = {}]_vars

\* C19: a run of add_income_amount or add_expense_amount, whatever its
\* outcome, has appended a transaction exactly when the session is Idle after
\* it: a session left waiting means the ledger was not changed by the input.
C19_AppendIffIdle ==
    [][LET u == last'.user
       IN  (u \in Users /\ last'.handler \in AmountHandlers)
           => (transactions' # transactions <=> state'[u] = Idle)]_vars

\* C12: a session that waits for input can be ended by an explicit reset: the
\* /start command returns it to Idle with no stored category and appends
\* nothing.
C12_StartResetsSession ==
    [][LET u == last'.user
       IN  (u \in Users /\ last'.handler = "send_welcome" /\ last'.log = "none")
           => /\ state'[u] = Idle
              /\ data'[u] = {}
              /\ transactions' = transactions]_vars

\* no message at all resets a waiting session: a dispatch that takes a session
\* from a waiting state to Idle has recorded a transaction
OnlyCompletionEndsSession ==
    [][LET u == last'.user
       IN  (u \in Users /\ state[u] # Idle /\ state'[u] = Idle)
           => /\ last'.handler \in AmountHandlers
              /\ Len(transactions') = Len(transactions) + 1]_vars

\* C13: a message dispatched for one user leaves every other user's FSM state
\* and data as they were, appends no transaction of another user, and leaves
\* the summaries, the category breakdown, the report reply and the export of
\* every other user unchanged (they are queries over the tables and the
\* clock: either those are unchanged or every query gives what it gave).
C13_OtherUsersUntouched ==
    [][LET a == last'.user
       IN  a \in Users =>
           \A b \in Users \ {a} :
               LET user_id == get_user_id(users, b)
               IN  /\ state'[b] = state[b]
                   /\ data'[b] = data[b]
                   /\ \/ users' = users /\ transactions' = transactions /\ now' = now
                      \/ /\ get_user_id(users, b)' = user_id
                         /\ RowsOf(b)' = RowsOf(b)
                         /\ get_daily_summary(user_id)' = get_daily_summary(user_id)
                         /\ get_weekly_summary(user_id)' = get_weekly_summary(user_id)
                         /\ get_monthly_summary(user_id)' = get_monthly_summary(user_id)
                         /\ get_expense_categories_summary(user_id)'
                            = get_expense_categories_summary(user_id)
                         /\ ReportReply(b)' = ReportReply(b)
                         /\ ExportReply(b)' = ExportReply(b)]_vars

\* C13 witness: a transaction has just been recorded for one user while
\* another user, who has a users row, is in the middle of a dialogue
C13_Witness ==
    /\ last.reply \in {"income_added", "expense_added"}
    /\ \E b \in Users \ {last.user} :
          /\ state[b] # Idle
          /\ get_user_id(users, b) # None

\* C14: the ledger is append-only: across every step, every users row and
\* every transactions row that existed before the step is still there with
\* the same fields (id and created_at included); the only change is an
\* insertion.
C14_AppendOnly ==
    [][/\ \A i \in DOMAIN users :
              i \in DOMAIN users' /\ users'[i] = users[i]
       /\ \A j \in DOMAIN transactions :
              j \in DOMAIN transactions' /\ transactions'[j] = transactions[j]]_vars

\* C14 witness: add_user has run for a tg_user_id that already had a row and
\* the call has gone on to insert its transaction, next to an older row
C14_Witness ==
    /\ \E p \in Procs : calls[p].ignored /\ calls[p].pc = "done"
    /\ Len(users) >= 1
    /\ Len(transactions) >= 2

\* the recognised menu commands: /start and the four buttons
MenuCommands == {CmdStart, BtnAddIncome, BtnAddExpense, BtnReports, BtnExport}

\* C15: while a user's session is Idle, a text that is not a menu command (a
\* category name and a number included) leaves the session Idle, stores no
\* session data and appends nothing to the ledger.
C15_IdleIgnoresOtherText ==
    [][LET u == last'.user
       IN  (u \in Users /\ state[u] = Idle /\ last'.text \notin MenuCommands)
           => /\ state'[u] = Idle
              /\ data'[u] = data[u]
              /\ data'[u] = {}
              /\ users' = users
              /\ transactions' = transactions]_vars

\* C15 witness: an Idle user has sent a category name or an amount, and it was
\* only logged
C15_Witness ==
    /\ last.handler = "log_all_messages"
    /\ \/ last.text \in Range(EXPENSE_CATEGORIES)
       \/ parse_amount(last.text).ok
    /\ state[last.user] = Idle

\* the positions of the commas and periods of a string
Separators(s) == {i \in DOMAIN s : s[i] \in {",", "."}}

\* the number a string of digits reads as
NumberOf(ds) ==
    LET n[i \in 0..Len(ds)] == IF i = 0 THEN 0 ELSE 10 * n[i - 1] + DigitVal(ds[i])
    IN  n[Len(ds)]

\* the number read from a string of digits and separators when its first
\* separator is the decimal point and the digits after it are the fraction,
\* in the units of the amounts
Reading(s) ==
    LET k == IF Separators(s) = {} THEN Len(s) + 1
             ELSE CHOOSE i \in Separators(s) : \A j \in Separators(s) : i <= j
        whole == SubSeq(s, 1, k - 1)
        frac == SelectSeq(SubSeq(s, k + 1, Len(s)), IsDigit)
    IN  NumberOf(whole) * Pow10(MaxLen - 1) + NumberOf(frac) * Pow10(MaxLen - 1 - Len(frac))

\* C16: for a text whose cleaned form (digits, commas and periods kept) has a
\* digit and at most one separator, parse_amount returns the number the
\* cleaned form reads as, a comma read as the decimal point; for a text with
\* no digit it raises ValueError.
C16_ParsesPlainNumbers ==
    last.handler = "parse_amount" =>
        LET text == last.text
            cleaned == SelectSeq(text, LAMBDA c : IsDigit(c) \/ c \in {",", "."})
        IN  /\ IsNumber(cleaned)
               => last.reply = [ok |-> TRUE, value |-> Reading(cleaned)]
            /\ (\A i \in DOMAIN text : ~IsDigit(text[i])) => ~last.reply.ok

\* C16 witness: parse_amount has returned a number with a fraction for a text
\* that has a comma and a character that is dropped
C16_Witness ==
    /\ last.handler = "parse_amount"
    /\ last.reply.ok
    /\ last.reply.value % Pow10(MaxLen - 1) # 0
    /\ \E i \in DOMAIN last.text : last.text[i] = ","
    /\ \E i \in DOMAIN last.text : last.text[i] = "-"

\* C17: parse_amount rejects no text for having more than one separator: for
\* a text whose cleaned form has a digit and two or more separators, commas
\* or periods, the first separator is the decimal point, the digits after
\* the later separators are joined into the fraction, and a value is
\* returned.
C17_ExtraSeparatorsMerged ==
    last.handler = "parse_amount" =>
        LET cleaned == SelectSeq(last.text, LAMBDA c : IsDigit(c) \/ c \in {",", "."})
        IN  (/\ \E i \in DOMAIN cleaned : IsDigit(cleaned[i])
             /\ Cardinality(Separators(cleaned)) >= 2)
            => last.reply = [ok |-> TRUE, value |-> Reading(cleaned)]

\* C18: for the same user, ledger and time, the category summary written by
\* generate_excel_report is the result of get_expense_categories_summary, and
\* its income, expense and profit of the month are the result of
\* get_monthly_summary.
C18_ExcelAgreesWithReports ==
    \A user_id \in UserIds :
        LET report == generate_excel_report(user_id)
        IN  /\ report.cat_list = get_expense_categories_summary(user_id)
            /\ <<report.m_income, report.m_expense, report.profit>>
               = get_monthly_summary(user_id)

\* C18 witness: a user with an expense recorded before the current month and
\* a row in the current month, so that the category totals are not empty and
\* the totals of the month are not those of all rows
C18_Witness ==
    \E user_id \in UserIds :
        LET report == generate_excel_report(user_id)
        IN  /\ report.cat_list # <<>>
            /\ report.m_income + report.m_expense > 0
            /\ \E i \in DOMAIN report.operations :
                  /\ report.operations[i].type = "expense"
                  /\ report.operations[i].created_at < MonthStart(now)

\* C20: show_reports for a user with at least one recorded transaction
\* answers with the report and never with an empty-state reply, whatever the
\* age of the transactions.
C20_ReportForAnyAge ==
    (/\ last.handler = "show_reports"
     /\ last.log = "none"
     /\ RowsOf(last.user) # {})
    => last.reply = "report"

\* the state-filtered handler of each waiting state
StateHandler(s) ==
    IF s = waiting_for_income_amount THEN "add_income_amount"
    ELSE IF s = waiting_for_expense_category THEN "add_expense_category"
    ELSE "add_expense_amount"

\* a button text taken by a state-filtered handler is refused like any other
\* text that is no amount and no category: the handler re-prompts
Refused(handler, reply, log) ==
    IF handler = "add_expense_category"
    THEN reply \in {"choose_from_list", "none"} /\ log \in {"none", "TelegramError"}
    ELSE log = "ValueError"

\* C21: handlers are tried in registration order, the first match wins, and a
\* handler without a state filter matches in every state.  The "add income"
\* text is taken by add_income_start in every state and moves the session to
\* waiting_for_income_amount.  The "add expense" text is taken by
\* add_expense_start and moves the session to waiting_for_expense_category
\* from Idle, waiting_for_expense_category and waiting_for_expense_amount; in
\* waiting_for_income_amount it is taken by add_income_amount, refused as an
\* amount, and the state stays.  The reports and export texts are served by
\* show_reports and export_to_excel only in Idle; in a waiting state they are
\* taken by the handler of that state, refused, and the state stays.  None of
\* these dispatches appends anything.  (A start handler whose prompt cannot
\* be sent raises before set_state and leaves the state as it was.)
C21_DispatchOrder ==
    [][LET u == last'.user
           text == last'.text
           handler == last'.handler
           moved(to) == IF last'.log = "none" THEN state'[u] = to
                        ELSE state'[u] = state[u]
       IN  (u \in Users /\ text \in {BtnAddIncome, BtnAddExpense, BtnReports, BtnExport})
           => /\ users' = users /\ transactions' = transactions
              /\ text = BtnAddIncome
                 => handler = "add_income_start" /\ moved(waiting_for_income_amount)
              /\ (text = BtnAddExpense /\ state[u] # waiting_for_income_amount)
                 => handler = "add_expense_start" /\ moved(waiting_for_expense_category)
              /\ (text = BtnAddExpense /\ state[u] = waiting_for_income_amount)
                 => /\ handler = "add_income_amount"
                    /\ Refused(handler, last'.reply, last'.log)
                    /\ state'[u] = state[u]
              /\ (text \in {BtnReports, BtnExport} /\ state[u] = Idle)
                 => /\ handler = (IF text = BtnReports THEN "show_reports"
                                  ELSE "export_to_excel")
                    /\ state'[u] = Idle
              /\ (text \in {BtnReports, BtnExport} /\ state[u] # Idle)
                 => /\ handler = StateHandler(state[u])
                    /\ Refused(handler, last'.reply, last'.log)
                    /\ state'[u] = state[u]
                    /\ data'[u] = data[u]]_vars

\* C21 witness: the "add expense" text has been sent in
\* waiting_for_income_amount, add_income_amount has refused it as an amount
\* and the session still waits for the income amount
C21_Witness ==
    /\ last.text = BtnAddExpense
    /\ last.handler = "add_income_amount"
    /\ last.log = "ValueError"
    /\ state[last.user] = waiting_for_income_amount

====
